---- MODULE Spec2Model ----
(***************************************************************************)
(* Model of the snake game's per-frame state transition (src/src/main.rs). *)
(* The PlayState fields are the variables; the actions are the steps of    *)
(* the main loop: Frame (the host delivers the frame's inputs and update   *)
(* makes the whole state transition on them) and Render.                   *)
(* Positions are whole grid cells (every coordinate the program produces   *)
(* is an integer-valued f32); times are in milliseconds.                   *)
(***************************************************************************)
EXTENDS Integers, Sequences, FiniteSets, TLC

\* ---- bounds of the exploration ----
\* grid steps explored after a construction of the state
MaxSteps == 4
\* keys newly pressed in one frame
MaxKeys == 2
\* board cells explored as outcomes of a random position draw
DrawCells == 7
\* grid steps of steered play before the snake is left to itself
PlaySteps == 2
\* grid steps explored after the steered play
CoastCap == 10

\* ---- program constants ----
\* the move interval 0.2 s, in milliseconds
MOVE_INTERVAL == 200
\* the tolerance 0.1 of are_basically_eq, in tenths of a cell
TOLERANCE == 1
\* last row / column of the board (walls at 0 and BOARD_MAX)
BOARD_MAX == 10

Directions == {"North", "South", "West", "East"}

KeyCodes == {"Left", "Right", "Up", "Down", "Escape"}

\* the sets of keys that can be newly pressed in one frame
KeySets == {ks \in SUBSET KeyCodes : Cardinality(ks) <= MaxKeys}

\* elapsed times get_frame_time() can report (ms): nothing, half an
\* interval, more than two intervals
FrameTimes == {0, 100, 450}

VARIABLES walls, parts, direction, next_direction, fruit,
          time_since_last_move, dead,
          keys_pressed, frame_time, rand_draws, path, steps, pc

game == <<walls, parts, direction, next_direction, fruit,
          time_since_last_move, dead>>

vars == <<walls, parts, direction, next_direction, fruit,
          time_since_last_move, dead,
          keys_pressed, frame_time, rand_draws, path, steps, pc>>

\* ---- Direction & geometry ----

is_opposite_of(one, other) ==
    <<one, other>> \in {<<"East", "West">>, <<"West", "East">>,
                        <<"North", "South">>, <<"South", "North">>}

\* dx > -0.1 && dx < 0.1 && dy > -0.1 && dy < 0.1, in tenths of a cell
are_basically_eq(this, other) ==
    LET dx == this[1] - other[1]
        dy == this[2] - other[2]
    IN  /\ 10 * dx > -TOLERANCE
        /\ 10 * dx < TOLERANCE
        /\ 10 * dy > -TOLERANCE
        /\ 10 * dy < TOLERANCE

next_position(from, d) ==
    CASE d = "North" -> <<from[1], from[2] - 1>>
      [] d = "South" -> <<from[1], from[2] + 1>>
      [] d = "West"  -> <<from[1] - 1, from[2]>>
      [] d = "East"  -> <<from[1] + 1, from[2]>>

\* ---- Game state construction ----

\* gen_range with the upper end included
gen_range_inclusive(low, high) == low..high

\* rand::gen_range(low, high): low <= v < high
gen_range(low, high) == low..(high - 1)

\* the order in which cells are taken into the exploration of the draws: the
\* corner the snake starts in, the far corner, a cell just past the range
\* and a wall cell (neither can be drawn from gen_range(1, 9)), then the
\* rest of the board
ExploredCells ==
    << <<2, 2>>, <<1, 2>>, <<1, 1>>, <<2, 1>>, <<8, 8>>, <<9, 9>>, <<2, 0>>,
       <<3, 1>>, <<1, 8>>, <<8, 1>>, <<3, 2>>, <<1, 3>>, <<2, 3>>, <<3, 3>> >>

\* a draw over the whole board, wall ring included
random_position_on_board_with_walls ==
    {c \in gen_range(0, 11) \X gen_range(0, 11) :
       \E i \in 1..Len(ExploredCells) : i <= DrawCells /\ ExploredCells[i] = c}

\* the positions a draw can give: x and y each from gen_range(1, 9)
random_position_on_board ==
    {c \in gen_range(1, 9) \X gen_range(1, 9) :
       \E i \in 1..Len(ExploredCells) : i <= DrawCells /\ ExploredCells[i] = c}

\* for x in 0..11 { push (x,0); push (x,10) }
wall_rows ==
    [i \in 1..22 |-> IF i % 2 = 1 THEN <<(i - 1) \div 2, 0>>
                                 ELSE <<(i - 2) \div 2, BOARD_MAX>>]

\* the side columns enumerated from y = 0 to 10, corners pushed again
wall_columns_with_corners ==
    [i \in 1..22 |-> IF i % 2 = 1 THEN <<0, (i - 1) \div 2>>
                                 ELSE <<BOARD_MAX, (i - 2) \div 2>>]

\* for y in 1..10 { push (0,y); push (10,y) }
wall_columns ==
    [i \in 1..18 |-> IF i % 2 = 1 THEN <<0, (i + 1) \div 2>>
                                 ELSE <<BOARD_MAX, i \div 2>>]

\* reset_state with the two starting segments in the other order
reset_state_tail_first(draw) ==
    [walls |-> wall_rows \o wall_columns,
     parts |-> << <<1, 1>>, <<2, 1>> >>,
     direction |-> "East",
     next_direction |-> "East",
     time_since_last_move |-> 0,
     fruit |-> draw,
     dead |-> FALSE]

reset_state(draw) ==
    [walls |-> wall_rows \o wall_columns,
     parts |-> << <<2, 1>>, <<1, 1>> >>,
     direction |-> "East",
     next_direction |-> "East",
     time_since_last_move |-> 0,
     fruit |-> draw,
     dead |-> FALSE]

\* extend_snake_body with the offset taken forwards, along the heading
extend_snake_body_ahead(state) ==
    IF state.parts = << >> THEN state
    ELSE [state EXCEPT !.parts =
            Append(@, next_position(@[Len(@)], state.direction))]

\* extend_snake_body pushing a copy of the tail
extend_snake_body_clone_tail(state) ==
    IF state.parts = << >> THEN state
    ELSE [state EXCEPT !.parts = Append(@, @[Len(@)])]

extend_snake_body(state) ==
    IF state.parts = << >> THEN state
    ELSE LET last == state.parts[Len(state.parts)]
             x == last[1]
             y == last[2]
             new_part == CASE state.direction = "North" -> <<x, y + 1>>
                           [] state.direction = "South" -> <<x, y - 1>>
                           [] state.direction = "West"  -> <<x + 1, y>>
                           [] state.direction = "East"  -> <<x - 1, y>>
         IN  [state EXCEPT !.parts = Append(@, new_part)]

\* ---- update ----

\* a.or_else(|| b) on Options held as sequences of length <= 1
or_else(a, b) == IF a # << >> THEN a ELSE b

\* input_to_direction without the reversal test
input_to_direction_unchecked(pressed, current, key, mapping) ==
    IF key \in pressed THEN <<mapping>> ELSE << >>

input_to_direction(pressed, current, key, mapping) ==
    IF key \in pressed /\ ~is_opposite_of(mapping, current)
    THEN <<mapping>> ELSE << >>


\* the four inputs chained Up, Down, Left, Right
buffered_direction_vertical_first(state, pressed) ==
    LET choice ==
          or_else(input_to_direction(pressed, state.direction, "Up", "North"),
          or_else(input_to_direction(pressed, state.direction, "Down", "South"),
          or_else(input_to_direction(pressed, state.direction, "Left", "West"),
                  input_to_direction(pressed, state.direction, "Right", "East"))))
    IN  IF choice # << >> THEN choice[1] ELSE state.next_direction

\* lines 123-127: the pending direction after this frame's inputs
buffered_direction(state, pressed) ==
    LET choice ==
          or_else(input_to_direction(pressed, state.direction, "Left", "West"),
          or_else(input_to_direction(pressed, state.direction, "Right", "East"),
          or_else(input_to_direction(pressed, state.direction, "Up", "North"),
                  input_to_direction(pressed, state.direction, "Down", "South"))))
    IN  IF choice # << >> THEN choice[1] ELSE state.next_direction

\* line 130: the timer gate
before_move_interval(t) == t < MOVE_INTERVAL

\* the new head written into slot 0 only
swap_head_only(ps, carried) ==
    IF ps = << >> THEN << >> ELSE <<carried>> \o Tail(ps)

\* the swap loop stopping one slot early and dropping the last slot
swap_through_dropping_tail(ps, carried) ==
    IF ps = << >> THEN << >>
    ELSE <<carried>> \o SubSeq(ps, 1, Len(ps) - 2)

\* lines 137-139: swap the carried position through every slot, head first
RECURSIVE swap_through(_, _)
swap_through(ps, carried) ==
    IF ps = << >> THEN << >>
    ELSE <<carried>> \o swap_through(Tail(ps), Head(ps))

\* the grid step carrying the time beyond the interval over to the next step
grid_step_keeping_excess(state) ==
    LET d == state.next_direction
    IN  [state EXCEPT !.time_since_last_move = @ - MOVE_INTERVAL,
                      !.direction = d,
                      !.parts = swap_through(@, next_position(@[1], d))]

\* lines 134-139
grid_step(state) ==
    LET d == state.next_direction
    IN  [state EXCEPT !.time_since_last_move = 0,
                      !.direction = d,
                      !.parts = swap_through(@, next_position(@[1], d))]

\* the wall check with all() in place of any()
hits_wall_all(ws, head) ==
    \A i \in 1..Len(ws) : are_basically_eq(ws[i], head)

\* the body check without skip(1)
hits_body_no_skip(ps) ==
    \E i \in 1..Len(ps) : are_basically_eq(ps[i], ps[1])

\* lines 144-148: .iter().skip(1).any(..)
hits_body(ps) ==
    \E i \in 2..Len(ps) : are_basically_eq(ps[i], ps[1])

\* line 154
hits_wall(ws, head) ==
    \E i \in 1..Len(ws) : are_basically_eq(ws[i], head)

\* lines 141-156
collision_check(state) ==
    IF hits_body(state.parts) \/ hits_wall(state.walls, state.parts[1])
    THEN [state EXCEPT !.dead = TRUE] ELSE state

\* the fruit test made against every segment instead of the head
fruit_check_any_part(state, draw) ==
    IF \E i \in 1..Len(state.parts) : are_basically_eq(state.parts[i], state.fruit)
    THEN [extend_snake_body(state) EXCEPT !.fruit = draw]
    ELSE state

\* lines 158-161
fruit_check(state, draw) ==
    IF are_basically_eq(state.parts[1], state.fruit)
    THEN [extend_snake_body(state) EXCEPT !.fruit = draw]
    ELSE state

\* the restart key honoured only on the death screen
restart_check_only_when_dead(state, pressed, draw) ==
    IF "Escape" \in pressed /\ state.dead THEN reset_state(draw) ELSE state

\* lines 114-116: if is_key_pressed(KeyCode::Escape) { *state = reset_state(); }
restart_check(state, pressed, draw) ==
    IF "Escape" \in pressed THEN reset_state(draw) ELSE state

\* update without the early return of a dead state
update_without_death_return(state, pressed, dt, draw_reset, draw_eat) ==
    LET s1 == restart_check(state, pressed, draw_reset)
        s2 == [s1 EXCEPT
                 !.next_direction = buffered_direction(s1, pressed),
                 !.time_since_last_move = @ + dt]
    IN  IF before_move_interval(s2.time_since_last_move) THEN s2
        ELSE fruit_check(collision_check(grid_step(s2)), draw_eat)

\* update with the elapsed time assigned to the timer instead of added
update_timer_assigned(state, pressed, dt, draw_reset, draw_eat) ==
    LET s1 == restart_check(state, pressed, draw_reset)
    IN  IF s1.dead THEN s1
        ELSE LET s2 == [s1 EXCEPT
                          !.next_direction = buffered_direction(s1, pressed),
                          !.time_since_last_move = dt]
             IN  IF before_move_interval(s2.time_since_last_move) THEN s2
                 ELSE fruit_check(collision_check(grid_step(s2)), draw_eat)

update(state, pressed, dt, draw_reset, draw_eat) ==
    LET s1 == restart_check(state, pressed, draw_reset)
    IN  IF s1.dead THEN s1
        ELSE LET s2 == [s1 EXCEPT
                          !.next_direction = buffered_direction(s1, pressed),
                          !.time_since_last_move = @ + dt]
             IN  IF before_move_interval(s2.time_since_last_move) THEN s2
                 ELSE fruit_check(collision_check(grid_step(s2)), draw_eat)

\* the place where update leaves: "dead" (line 119), "wait" (line 131),
\* "step" (line 162)
return_point(state, pressed, dt) ==
    LET s1 == restart_check(state, pressed, <<1, 1>>)
    IN  IF s1.dead THEN "dead"
        ELSE IF before_move_interval(s1.time_since_last_move + dt) THEN "wait"
        ELSE "step"

\* ---- the state machine ----

PlayState ==
    [walls |-> walls, parts |-> parts, direction |-> direction,
     next_direction |-> next_direction, fruit |-> fruit,
     time_since_last_move |-> time_since_last_move, dead |-> dead]

NoDraw == <<0, 0>>

\* main: let mut state = reset_state(); the loop has not run yet
Init ==
    /\ \E draw \in random_position_on_board :
         LET s == reset_state(draw)
         IN  /\ walls = s.walls
             /\ parts = s.parts
             /\ direction = s.direction
             /\ next_direction = s.next_direction
             /\ fruit = s.fruit
             /\ time_since_last_move = s.time_since_last_move
             /\ dead = s.dead
             /\ rand_draws = <<draw>>
    /\ keys_pressed = {}
    /\ frame_time = 0
    /\ path = "init"
    /\ steps = 0
    /\ pc = "update"

\* grid steps since the last construction, once update has run on the
\* inputs and left at return point p
steps_after(pressed, p) ==
    (IF "Escape" \in pressed THEN 0 ELSE steps) + (IF p = "step" THEN 1 ELSE 0)

\* next_frame().await resumes the loop with the inputs the host has sampled
\* for the frame (keys newly pressed, elapsed time), and update(&mut state)
\* runs on them
FrameWith(pressed, dt, budget) ==
    /\ pc = "update"
    /\   \E p \in {return_point(PlayState, pressed, dt)} :
         LET resets == "Escape" \in pressed IN
         /\ steps_after(pressed, p) <= budget
         /\ \E d1 \in (IF resets THEN random_position_on_board ELSE {NoDraw}) :
            \E old \in {restart_check(PlayState, pressed, d1)} :
            \E dry \in {update(PlayState, pressed, dt, d1, NoDraw)} :
              LET ate == Len(dry.parts) > Len(old.parts) IN
              \E d2 \in (IF ate THEN random_position_on_board ELSE {NoDraw}) :
              \E new \in {IF ate THEN update(PlayState, pressed, dt, d1, d2)
                                 ELSE dry} :
                /\ walls' = new.walls
                /\ parts' = new.parts
                /\ direction' = new.direction
                /\ next_direction' = new.next_direction
                /\ fruit' = new.fruit
                /\ time_since_last_move' = new.time_since_last_move
                /\ dead' = new.dead
                /\ rand_draws' = (IF resets THEN <<d1>> ELSE << >>)
                                 \o (IF ate THEN <<d2>> ELSE << >>)
         /\ keys_pressed' = pressed
         /\ frame_time' = dt
         /\ path' = p
         /\ steps' = steps_after(pressed, p)
    /\ pc' = "render"

Frame == \E pressed \in KeySets, dt \in FrameTimes :
           FrameWith(pressed, dt, MaxSteps)

\* render(&state) reads the state and changes nothing; the loop then yields
\* to the host, which ends the frame: its inputs are gone
Render ==
    /\ pc = "render"
    /\ pc' = "update"
    /\ keys_pressed' = {}
    /\ frame_time' = 0
    /\ rand_draws' = << >>
    /\ path' = "idle"
    /\ UNCHANGED <<game, steps>>

Next == Frame \/ Render

Spec == Init /\ [][Next]_vars

\* The same loop seen as steered play followed by a snake left to itself:
\* frames with a newly pressed key within the first PlaySteps grid steps
\* after a construction, frames without any key at any time.
PlayFrame == \E pressed \in KeySets \ {{}}, dt \in FrameTimes :
               FrameWith(pressed, dt, PlaySteps)

CoastFrame == \E dt \in FrameTimes :
                FrameWith({}, dt, PlaySteps + CoastCap)

CoastNext == PlayFrame \/ CoastFrame \/ Render

\* a frame that update has run on is rendered and the loop yields to the
\* host: the loop does not stop between update and next_frame
CoastSpec ==
    /\ Init
    /\ [][CoastNext]_vars
    /\ WF_vars(Render)

TypeOK ==
    /\ direction \in Directions
    /\ next_direction \in Directions
    /\ dead \in BOOLEAN
    /\ steps \in 0..(MaxSteps + PlaySteps + CoastCap)
    /\ path \in {"init", "idle", "dead", "wait", "step"}
    /\ pc \in {"update", "render"}

\* ---- vocabulary of the properties ----
\* All of these are read on a Frame step (pc = "update"): keys and elapsed
\* are the inputs of the frame, the unprimed PlayState is the state before
\* update and the primed one the state after it.

keys == keys_pressed'

elapsed == frame_time'

Restarting == "Escape" \in keys

FreshBody == << <<2, 1>>, <<1, 1>> >>

Interior == (1..8) \X (1..8)

\* the state the rest of the frame works on: the freshly constructed one
\* when the frame restarts, the current one otherwise
BaseParts == IF Restarting THEN FreshBody ELSE parts
BaseDirection == IF Restarting THEN "East" ELSE direction
BasePending == IF Restarting THEN "East" ELSE next_direction
BaseTime == IF Restarting THEN 0 ELSE time_since_last_move
BaseDead == IF Restarting THEN FALSE ELSE dead
BaseFruit == IF Restarting THEN rand_draws'[1] ELSE fruit

LiveFrame == pc = "update" /\ ~BaseDead
TriggeringStep == LiveFrame /\ BaseTime + elapsed >= 200

Reverse(d) ==
    CASE d = "North" -> "South"
      [] d = "South" -> "North"
      [] d = "West"  -> "East"
      [] d = "East"  -> "West"

OneStep(p, d) ==
    <<p[1] + (IF d = "East" THEN 1 ELSE IF d = "West" THEN -1 ELSE 0),
      p[2] + (IF d = "South" THEN 1 ELSE IF d = "North" THEN -1 ELSE 0)>>

OnWall(p) == p[1] \in {0, 10} \/ p[2] \in {0, 10}

\* the pending direction the frame's inputs select: first of Left, Right,
\* Up, Down that is pressed and not the reverse of the heading
SelectedPending ==
    IF "Left" \in keys /\ BaseDirection # "East" THEN "West"
    ELSE IF "Right" \in keys /\ BaseDirection # "West" THEN "East"
    ELSE IF "Up" \in keys /\ BaseDirection # "South" THEN "North"
    ELSE IF "Down" \in keys /\ BaseDirection # "North" THEN "South"
    ELSE BasePending

\* ---- C1 ----
\* C1 as stated: an update with restart newly pressed leaves the state exactly
\* as freshly constructed (body [(2,1),(1,1)], heading = pending = East,
\* timer 0, alive, fruit in [1,8]x[1,8]) and processes nothing else.
C1_RestartStopsFrame ==
    [][(pc = "update" /\ Restarting) =>
         /\ parts' = FreshBody
         /\ direction' = "East"
         /\ next_direction' = "East"
         /\ time_since_last_move' = 0
         /\ dead' = FALSE
         /\ fruit' \in Interior]_vars

\* C1 amended: an update with restart newly pressed, from any state, first
\* replaces the state by a freshly constructed one and then runs the rest of
\* the frame on it: the directional inputs are buffered against heading East,
\* the elapsed time is added to the timer 0, and when that reaches 0.2 a grid
\* step from (2,1) with collision check and fruit consumption takes place.
\* Nothing of the state before the restart survives.
C1_RestartThenFrame ==
    [][(pc = "update" /\ Restarting) =>
         LET pend == IF "Right" \in keys THEN "East"
                     ELSE IF "Up" \in keys THEN "North"
                     ELSE IF "Down" \in keys THEN "South"
                     ELSE "East"
             drawn == rand_draws'[1]
         IN  /\ drawn \in Interior
             /\ next_direction' = pend
             /\ IF elapsed < 200
                THEN /\ parts' = FreshBody
                     /\ direction' = "East"
                     /\ time_since_last_move' = elapsed
                     /\ dead' = FALSE
                     /\ fruit' = drawn
                ELSE /\ direction' = pend
                     /\ time_since_last_move' = 0
                     /\ parts'[1] = OneStep(<<2, 1>>, pend)
                     /\ parts'[2] = <<2, 1>>
                     /\ dead' = (pend = "North")
                     /\ IF drawn = parts'[1]
                        THEN Len(parts') = 3 /\ fruit' \in Interior
                        ELSE Len(parts') = 2 /\ fruit' = drawn]_vars

\* a restart frame that went on to buffer Down and take a grid step South
C1_Witness ==
    /\ pc = "render"
    /\ "Escape" \in keys_pressed
    /\ path = "step"
    /\ direction = "South"
    /\ parts[1] = <<2, 2>>

\* ---- C2 ----
\* C2: an update that starts dead without a newly pressed restart changes no
\* field of the state, whatever the inputs; the death flag goes from true to
\* false only in an update with restart pressed.
C2_DeadFrozen ==
    /\ [][(pc = "update" /\ dead /\ ~Restarting) => UNCHANGED game]_vars
    /\ [][(dead /\ ~dead') => (pc = "update" /\ Restarting)]_vars

\* an update ran on a dead state with a direction key and a full interval
C2_Witness ==
    /\ pc = "render"
    /\ path = "dead"
    /\ dead
    /\ "Escape" \notin keys_pressed
    /\ keys_pressed # {}
    /\ frame_time >= 200

\* ---- C3 ----
\* C3: after a triggering grid step of a live snake the death flag is true
\* exactly when the new head equals the post-shift position of a non-head
\* segment or a wall cell (x or y in {0,10}).
C3_DeathIffCollision ==
    [][TriggeringStep =>
         (dead' <=> \/ \E i \in 2..Len(BaseParts) : parts'[i] = parts'[1]
                    \/ OnWall(parts'[1]))]_vars

\* the head stepped West from (1,1) onto the wall cell (0,1)
C3_Witness ==
    /\ pc = "render"
    /\ path = "step"
    /\ dead
    /\ direction = "West"
    /\ parts[1] = <<0, 1>>
    /\ parts[2] = <<1, 1>>

\* ---- C4 ----
\* C4: on a live frame the pending direction after the frame is that of the
\* first of Left, Right, Up, Down that is newly pressed and not the reverse of
\* the current heading, and the previous pending direction if there is none.
C4_BufferPriority ==
    [][LiveFrame => next_direction' = SelectedPending]_vars

\* Left and Up pressed while heading East: West is skipped, North is taken
C4_Witness ==
    /\ pc = "render"
    /\ path = "wait"
    /\ keys_pressed = {"Left", "Up"}
    /\ direction = "East"
    /\ next_direction = "North"

\* ---- C5 ----
\* C5: the pending direction is never the reverse of the heading; a grid
\* step never commits the reverse of the heading before it, and its new head
\* is never the cell the neck held before the step.
C5_NoReversal ==
    /\ [](next_direction # Reverse(direction))
    /\ [][TriggeringStep =>
            /\ direction' # Reverse(BaseDirection)
            /\ parts'[1] # BaseParts[2]]_vars

\* heading East with North already pending, Left is pressed in a later frame
\* before the grid step and is refused
C5_Witness ==
    /\ pc = "render"
    /\ path = "wait"
    /\ keys_pressed = {"Left"}
    /\ direction = "East"
    /\ next_direction = "North"

\* ---- C6 ----
\* C6: a live update without restart whose elapsed time keeps the timer
\* below 0.2 leaves body, heading, fruit and death flag as they were and
\* adds exactly the elapsed time to the timer.
C6_TimerGate ==
    [][(pc = "update" /\ ~Restarting /\ ~dead
          /\ time_since_last_move + elapsed < 200) =>
         /\ parts' = parts
         /\ direction' = direction
         /\ fruit' = fruit
         /\ dead' = dead
         /\ time_since_last_move' = time_since_last_move + elapsed]_vars

\* a second waiting frame in a row, during play: 100 ms were on the timer and
\* the frame added nothing
C6_Witness ==
    /\ pc = "render"
    /\ path = "wait"
    /\ "Escape" \notin keys_pressed
    /\ steps > 0
    /\ frame_time = 0
    /\ time_since_last_move = 100

\* ---- C7 ----
\* C7: a triggering grid step resets the timer, makes the pending direction
\* the heading, puts next_position(old head, heading) in slot 0 and the old
\* slot i-1 in every slot i >= 1 below the old length; the length does not
\* shrink and changes only when the step eats.
C7_GridStep ==
    [][TriggeringStep =>
         /\ time_since_last_move' = 0
         /\ direction' = SelectedPending
         /\ direction' = next_direction'
         /\ parts'[1] = OneStep(BaseParts[1], direction')
         /\ \A i \in 2..Len(BaseParts) : parts'[i] = BaseParts[i - 1]
         /\ Len(parts') >= Len(BaseParts)
         /\ (parts'[1] # BaseFruit => Len(parts') = Len(BaseParts))]_vars

\* a live body of four segments that has turned three times has stepped East
\* into the cell its tail left in the same step
C7_Witness ==
    /\ pc = "render"
    /\ path = "step"
    /\ ~dead
    /\ direction = "East"
    /\ parts = << <<2, 1>>, <<1, 1>>, <<1, 2>>, <<2, 2>> >>

\* ---- C8 ----
\* C8: a triggering grid step lengthens the body by exactly 1 and re-draws
\* the fruit inside [1,8]x[1,8] if and only if the new head is on the fruit;
\* otherwise, and on every other update without restart, length and fruit
\* stay as they were.
C8_GrowthIffEat ==
    /\ [][TriggeringStep =>
            IF parts'[1] = BaseFruit
            THEN /\ Len(parts') = Len(BaseParts) + 1
                 /\ fruit' \in Interior
            ELSE /\ Len(parts') = Len(BaseParts)
                 /\ fruit' = BaseFruit]_vars
    /\ [][(pc = "update" /\ ~Restarting /\ ~TriggeringStep) =>
            /\ Len(parts') = Len(parts)
            /\ fruit' = fruit]_vars

\* a body of length 2 heading East ate the fruit one step ahead: the first
\* growth since construction, in a frame without restart
C8_Witness ==
    /\ pc = "render"
    /\ path = "step"
    /\ "Escape" \notin keys_pressed
    /\ direction = "East"
    /\ parts[2][2] = parts[1][2]
    /\ Len(parts) = 3
    /\ Len(rand_draws) = 1

\* ---- C9 ----
\* C9: the body length is at least 2 in every state and only an update with
\* restart pressed can make it smaller.
C9_LengthNeverShrinks ==
    /\ [](Len(parts) >= 2)
    /\ [][(Len(parts') < Len(parts)) => (pc = "update" /\ Restarting)]_vars

\* a grid step without restart on a body grown to five segments
C9_Witness ==
    /\ pc = "render"
    /\ path = "step"
    /\ "Escape" \notin keys_pressed
    /\ Len(parts) = 5
    /\ Len(rand_draws) = 0

\* ---- C10 ----
\* C10: in every reachable state consecutive body segments are adjacent grid
\* cells: 1 apart on one axis, 0 on the other.
Abs(n) == IF n < 0 THEN -n ELSE n

C10_ConsecutiveAdjacent ==
    \A i \in 1..(Len(parts) - 1) :
       Abs(parts[i][1] - parts[i + 1][1]) + Abs(parts[i][2] - parts[i + 1][2]) = 1

\* a grown body of five segments died in a grid step that also grew it
C10_Witness ==
    /\ pc = "render"
    /\ path = "step"
    /\ dead
    /\ Len(parts) = 6
    /\ Len(rand_draws) = 1

\* ---- C11 ----
\* C11: in every reachable state the fruit has integer coordinates with
\* 1 <= x <= 8 and 1 <= y <= 8, so it is never on a wall cell.
C11_FruitInside ==
    /\ fruit \in Interior
    /\ ~OnWall(fruit)

\* the fruit was re-rolled to the far corner of its range by a step that ate
C11_Witness ==
    /\ pc = "render"
    /\ path = "step"
    /\ "Escape" \notin keys_pressed
    /\ Len(rand_draws) = 1
    /\ fruit = <<8, 8>>

\* ---- C12 ----
\* C12: in every reachable state the wall list holds exactly the cells with
\* x in {0,10} or y in {0,10} of the 11x11 board, each once (40 cells), and no
\* interior cell; no step changes it, a restart rebuilds the same list.
Perimeter == {c \in (0..10) \X (0..10) : c[1] \in {0, 10} \/ c[2] \in {0, 10}}

C12_WallsArePerimeter ==
    /\ [](/\ Len(walls) = 40
          /\ {walls[i] : i \in 1..Len(walls)} = Perimeter
          /\ \A i, j \in 1..Len(walls) : walls[i] = walls[j] => i = j)
    /\ [][walls' = walls]_vars

\* a restart during play (after a grid step had happened in the frame) has
\* rebuilt the walls
C12_Witness ==
    /\ pc = "render"
    /\ "Escape" \in keys_pressed
    /\ path = "step"
    /\ Len(walls) = 40
    /\ walls[1] = <<0, 0>>
    /\ walls[40] = <<10, 9>>

\* ---- C13 ----
\* C13: every state reset_state returns has body [(2,1),(1,1)], heading and
\* pending direction East, timer 0 and death flag false; only the fruit
\* varies. Seen at construction and in a restart frame that has no
\* directional key and no elapsed time, where update adds nothing to it.
C13_ResetState ==
    /\ [](path = "init" =>
            /\ parts = FreshBody
            /\ direction = "East"
            /\ next_direction = "East"
            /\ time_since_last_move = 0
            /\ dead = FALSE
            /\ fruit \in Interior)
    /\ [][(pc = "update" /\ keys = {"Escape"} /\ elapsed = 0) =>
            /\ parts' = FreshBody
            /\ direction' = "East"
            /\ next_direction' = "East"
            /\ time_since_last_move' = 0
            /\ dead' = FALSE
            /\ fruit' \in Interior
            /\ fruit' = rand_draws'[1]]_vars

\* a restart frame with Escape alone and no elapsed time
C13_Witness ==
    /\ pc = "render"
    /\ keys_pressed = {"Escape"}
    /\ frame_time = 0
    /\ path = "wait"
    /\ fruit = <<8, 8>>

\* ---- C14 ----
\* a grid step that grew the body
GrowingStep == TriggeringStep /\ Len(parts') = Len(BaseParts) + 1

\* C14: when the snake eats, the appended segment lies in the cell the tail
\* occupied immediately before this grid step, for every body shape.
C14_AppendedInVacatedCell ==
    [][GrowingStep =>
         parts'[Len(parts')] = BaseParts[Len(BaseParts)]]_vars

\* ---- C15 ----
\* C15: extend_snake_body appends exactly one segment, at the post-shift
\* tail moved one unit against the committed heading (North: y+1, South:
\* y-1, West: x+1, East: x-1), so that one step along the heading from the
\* new segment gives the tail; the shifted segments keep position and order.
C15_MirroredOffset ==
    [][TriggeringStep =>
         /\ Len(parts') \in {Len(BaseParts), Len(BaseParts) + 1}
         /\ GrowingStep =>
              LET n == Len(BaseParts)
                  tail == parts'[n]
                  added == parts'[n + 1]
                  h == direction'
              IN  /\ added = <<tail[1] + (IF h = "West" THEN 1
                                          ELSE IF h = "East" THEN -1 ELSE 0),
                               tail[2] + (IF h = "North" THEN 1
                                          ELSE IF h = "South" THEN -1 ELSE 0)>>
                  /\ OneStep(added, h) = tail
                  /\ parts'[1] = OneStep(BaseParts[1], h)
                  /\ \A i \in 2..n : parts'[i] = BaseParts[i - 1]]_vars

\* a body that had just turned South ate: its tail travelled East, the new
\* segment went North of the tail
C15_Witness ==
    /\ pc = "render"
    /\ path = "step"
    /\ "Escape" \notin keys_pressed
    /\ Len(rand_draws) = 1
    /\ direction = "South"
    /\ parts = << <<2, 2>>, <<2, 1>>, <<2, 0>> >>

\* ---- C16 ----
\* C16: while the death flag is false every body segment has 1 <= x <= 9
\* and 1 <= y <= 9 (no segment on a wall cell).
C16_LiveBodyOffWalls ==
    ~dead => \A i \in 1..Len(parts) :
               parts[i][1] \in 1..9 /\ parts[i][2] \in 1..9

\* ---- C17 ----
\* C17: while the death flag is false no two body segments occupy the same
\* cell.
C17_LiveBodyNoOverlap ==
    ~dead => \A i, j \in 1..Len(parts) : parts[i] = parts[j] => i = j

\* ---- C18 ----
\* C18 as stated: a grid step after which the death flag is true leaves the
\* body length and the fruit as they were.
C18_DyingStepDoesNotEat ==
    [][(TriggeringStep /\ dead') =>
         /\ Len(parts') = Len(BaseParts)
         /\ fruit' = BaseFruit]_vars

\* C18 amended: a grid step that dies on a wall cell does not eat (length and
\* fruit as before); a grid step that dies on a body segment eats exactly
\* when the new head is on the fruit, like a step that survives: the body is
\* then extended by one and the fruit re-rolled.
C18_OnlyWallDeathDoesNotEat ==
    [][(TriggeringStep /\ dead') =>
         IF OnWall(parts'[1]) \/ parts'[1] # BaseFruit
         THEN /\ Len(parts') = Len(BaseParts)
              /\ fruit' = BaseFruit
         ELSE /\ Len(parts') = Len(BaseParts) + 1
              /\ fruit' = rand_draws'[Len(rand_draws')]
              /\ fruit' \in Interior]_vars

\* the head ran into its own body on the fruit's cell: dead and grown
C18_Witness ==
    /\ pc = "render"
    /\ path = "step"
    /\ "Escape" \notin keys_pressed
    /\ dead
    /\ ~OnWall(parts[1])
    /\ \E i \in 2..Len(parts) : parts[i] = parts[1]
    /\ Len(rand_draws) = 1

\* ---- C19 ----
\* C19: with elapsed times >= 0 the timer is in [0, 0.2) in every state
\* between two updates: a live update leaves the sum when it is below 0.2 and
\* 0 otherwise, a dead state keeps its value; however large the elapsed time,
\* an update moves the head by at most one cell.
C19_TimerBelowInterval ==
    /\ [](time_since_last_move >= 0 /\ time_since_last_move < 200)
    /\ [][pc = "update" =>
            /\ elapsed >= 0
            /\ time_since_last_move' =
                 (IF BaseDead THEN time_since_last_move
                  ELSE IF BaseTime + elapsed < 200 THEN BaseTime + elapsed
                  ELSE 0)
            /\ \/ parts' = BaseParts
               \/ /\ parts'[1] = OneStep(BaseParts[1], direction')
                  /\ parts'[2] = BaseParts[1]]_vars

\* during play, a frame of more than two intervals made one grid step and
\* left the timer at 0
C19_Witness ==
    /\ pc = "render"
    /\ path = "step"
    /\ "Escape" \notin keys_pressed
    /\ steps >= 2
    /\ frame_time = 450
    /\ time_since_last_move = 0
    /\ ~dead

\* ---- C20 ----
\* C20: if frames with elapsed time keep arriving and from some point on no
\* key is newly pressed, the death flag becomes true and stays true; every
\* grid step without keys moves the head one cell along the unchanged
\* pending direction, and the snake is dead by the 9th grid step after the
\* steered play, wherever the fruit is drawn.
C20_DeathWithoutSteering ==
    /\ ([]<>(pc = "render" /\ frame_time > 0) /\ <>[](keys_pressed = {}))
         => (<>[]dead)
    /\ [](steps >= PlaySteps + 9 => dead)
    /\ [][(keys = {} /\ TriggeringStep) =>
            /\ next_direction' = next_direction
            /\ direction' = next_direction
            /\ parts'[1] = OneStep(parts[1], next_direction)]_vars

\* left to itself on the top row, the snake ran East into the wall at x = 10
C20_Witness ==
    /\ pc = "render"
    /\ path = "step"
    /\ keys_pressed = {}
    /\ dead
    /\ direction = "East"
    /\ parts[1] = <<10, 1>>
    /\ steps = 8
====
